---- MODULE Spec2Model ----
(***************************************************************************)
(* A model of py27maasclient (src/py27maasclient/__init__.py): the JSON    *)
(* response decoder _get_json, the Client lookup / enlistment operations,  *)
(* the Machine lifecycle calls and the status-polling loop Machine.poll.   *)
(*                                                                         *)
(* Strings that the code takes apart (content-type headers, host names,    *)
(* JSON bodies) are sequences of tokens; the concatenation of the tokens   *)
(* is the string.  Time is counted in whole seconds.                       *)
(***************************************************************************)
EXTENDS Integers, Sequences, FiniteSets, TLC

VARIABLES
    \* ---- Machine.poll ----
    pc,          \* position in poll: "idle", "fetch", "check", "sleep", "returned", "raised"
    return_on,   \* argument of poll
    continue_on, \* argument of poll
    timeout,     \* argument of poll
    wait_total,  \* local of poll
    backoff,     \* local of poll
    t,           \* local of poll: the clock read at the top of the iteration
    dt,          \* local of poll: the clamped clock difference
    status,      \* local of poll: info['status_name'] of the last fetch
    error,       \* the exception poll raised (NoError while none)
    clock,       \* what time.time() returns now (the wall clock; it may be stepped)
    elapsed,     \* real time spent since poll was called (round-trips plus sleeps)
    slept,       \* the argument of every time.sleep call so far, in order
    nfetch,      \* number of get_detail calls so far
    trips,       \* real duration of the last two round-trips <<previous, last>>
    stepped,     \* TRUE once the wall clock was stepped backward during a fetch
    \* ---- _get_json ----
    jpc,         \* "idle", "call", "done"
    res,         \* the response handed to _get_json
    ok_check,    \* the ok_check argument
    jresult,     \* what _get_json returned or raised
    \* ---- Client / Machine ----
    cpc,         \* position in enlist_and_commission / the caller
    args,        \* arguments of enlist_and_commission
    requests,    \* every request sent through the session, in order
    cresult,     \* what enlist_and_commission returned or raised
    post_res,    \* the response of the creation request
    lookup_res,  \* the response of the lookup request
    ops          \* results of the Machine lifecycle calls made on the handle

pollVars == <<pc, return_on, continue_on, timeout, wait_total, backoff, t, dt,
              status, error, clock, elapsed, slept, nfetch, trips, stepped>>
jsonVars == <<jpc, res, ok_check, jresult>>
clientVars == <<cpc, args, requests, cresult, post_res, lookup_res, ops>>
vars == <<pollVars, jsonVars, clientVars>>

Min(a, b) == IF a <= b THEN a ELSE b
Max(a, b) == IF a >= b THEN a ELSE b

None == [kind |-> "None"]
NoStatus == ""
NoError == [kind |-> "none"]

(***************************************************************************)
(* Bounds of the model.                                                    *)
(***************************************************************************)
MaxTimeout == 20
MaxRoundTrip == 2
MaxJump == 1
MaxHeaderLen == 3
MaxBodyLen == 3
MaxOps == 1

Statuses == {"Ready", "Deploying", "Broken"}
Timeouts == {-1, 0, 5, MaxTimeout}
RoundTrips == {0, MaxRoundTrip}
ClockJumps == {-MaxJump, 0, MaxJump}

(***************************************************************************)
(* Machine.poll                                                            *)
(***************************************************************************)
InitialBackoff == 3
MaxBackoff == 10

NextBackoffUncapped(b) == b * 2
NextBackoffReset(b) == IF b * 2 > MaxBackoff THEN InitialBackoff ELSE b * 2
\* backoff = min(10, backoff * 2)
NextBackoff(b) == Min(MaxBackoff, b * 2)

DtUnclamped(now, t0) == now - t0
DtDropped(now, t0) == 0
\* dt = max(time.time() - t, 0)
ClampedDt(now, t0) == Max(now - t0, 0)

UnexpectedStatus(s) == [kind |-> "MAASError", what |-> "unexpected status", status |-> s]
TimeoutError(ro, to, s) ==
    [kind |-> "MAASError", what |-> "time limit", return_on |-> ro,
     timeout |-> to, status |-> s]
DetailError == [kind |-> "MAASError", what |-> "get_detail"]

\* t = time.time(); info = self.get_detail(); status = info['status_name']
\* The round-trip takes rt seconds of real time while the wall clock moves by
\* rt + jump (jump < 0: the clock was stepped backward meanwhile).
Fetch ==
    /\ pc = "fetch"
    /\ \E rt \in RoundTrips, jump \in ClockJumps, s \in Statuses :
        /\ t' = clock
        /\ clock' = clock + rt + jump
        /\ elapsed' = elapsed + rt
        /\ trips' = <<trips[2], rt>>
        /\ stepped' = (stepped \/ jump < 0)
        /\ status' = s
    /\ nfetch' = nfetch + 1
    /\ pc' = "check"
    /\ UNCHANGED <<return_on, continue_on, timeout, wait_total, backoff, dt,
                   error, slept, jsonVars, clientVars>>

\* get_detail raises (a failure status, a non-JSON answer, a transport error):
\* the exception leaves poll.
FetchFails ==
    /\ pc = "fetch"
    /\ \E rt \in RoundTrips, jump \in ClockJumps :
        /\ t' = clock
        /\ clock' = clock + rt + jump
        /\ elapsed' = elapsed + rt
        /\ trips' = <<trips[2], rt>>
        /\ stepped' = (stepped \/ jump < 0)
    /\ nfetch' = nfetch + 1
    /\ error' = DetailError
    /\ pc' = "raised"
    /\ UNCHANGED <<return_on, continue_on, timeout, wait_total, backoff, dt,
                   status, slept, jsonVars, clientVars>>

CheckContinueFirst ==
    /\ pc = "check"
    /\ IF status \in continue_on
       THEN IF wait_total > timeout
            THEN /\ error' = TimeoutError(return_on, timeout, status)
                 /\ pc' = "raised"
                 /\ dt' = dt
            ELSE /\ dt' = ClampedDt(clock, t)
                 /\ pc' = "sleep"
                 /\ error' = error
       ELSE IF status \in return_on
       THEN pc' = "returned" /\ dt' = dt /\ error' = error
       ELSE /\ error' = UnexpectedStatus(status)
            /\ pc' = "raised"
            /\ dt' = dt
    /\ UNCHANGED <<return_on, continue_on, timeout, wait_total, backoff, t,
                   status, clock, elapsed, slept, nfetch, trips, stepped,
                   jsonVars, clientVars>>

CheckTimeoutFirst ==
    /\ pc = "check"
    /\ IF status \in return_on
       THEN pc' = "returned" /\ dt' = dt /\ error' = error
       ELSE IF wait_total > timeout
       THEN /\ error' = TimeoutError(return_on, timeout, status)
            /\ pc' = "raised"
            /\ dt' = dt
       ELSE IF status \in continue_on
       THEN /\ dt' = ClampedDt(clock, t)
            /\ pc' = "sleep"
            /\ error' = error
       ELSE /\ error' = UnexpectedStatus(status)
            /\ pc' = "raised"
            /\ dt' = dt
    /\ UNCHANGED <<return_on, continue_on, timeout, wait_total, backoff, t,
                   status, clock, elapsed, slept, nfetch, trips, stepped,
                   jsonVars, clientVars>>

CheckBreakReturns ==
    /\ pc = "check"
    /\ IF status \in return_on
       THEN pc' = "returned" /\ dt' = dt /\ error' = error
       ELSE IF status \in continue_on
       THEN IF wait_total > timeout
            THEN pc' = "returned" /\ dt' = dt /\ error' = error
            ELSE /\ dt' = ClampedDt(clock, t)
                 /\ pc' = "sleep"
                 /\ error' = error
       ELSE /\ error' = UnexpectedStatus(status)
            /\ pc' = "raised"
            /\ dt' = dt
    /\ UNCHANGED <<return_on, continue_on, timeout, wait_total, backoff, t,
                   status, clock, elapsed, slept, nfetch, trips, stepped,
                   jsonVars, clientVars>>

CheckTimeoutInclusive ==
    /\ pc = "check"
    /\ IF status \in return_on
       THEN pc' = "returned" /\ dt' = dt /\ error' = error
       ELSE IF status \in continue_on
       THEN IF wait_total >= timeout
            THEN /\ error' = TimeoutError(return_on, timeout, status)
                 /\ pc' = "raised"
                 /\ dt' = dt
            ELSE /\ dt' = ClampedDt(clock, t)
                 /\ pc' = "sleep"
                 /\ error' = error
       ELSE /\ error' = UnexpectedStatus(status)
            /\ pc' = "raised"
            /\ dt' = dt
    /\ UNCHANGED <<return_on, continue_on, timeout, wait_total, backoff, t,
                   status, clock, elapsed, slept, nfetch, trips, stepped,
                   jsonVars, clientVars>>

\* The if / elif / else on the fetched status, up to the clock read of the
\* continue branch; the break leads to the raise after the loop.
Check ==
    /\ pc = "check"
    /\ IF status \in return_on
       THEN pc' = "returned" /\ dt' = dt /\ error' = error
       ELSE IF status \in continue_on
       THEN IF wait_total > timeout
            THEN /\ error' = TimeoutError(return_on, timeout, status)
                 /\ pc' = "raised"
                 /\ dt' = dt
            ELSE /\ dt' = ClampedDt(clock, t)
                 /\ pc' = "sleep"
                 /\ error' = error
       ELSE /\ error' = UnexpectedStatus(status)
            /\ pc' = "raised"
            /\ dt' = dt
    /\ UNCHANGED <<return_on, continue_on, timeout, wait_total, backoff, t,
                   status, clock, elapsed, slept, nfetch, trips, stepped,
                   jsonVars, clientVars>>

\* time.sleep(backoff); wait_total += dt + backoff; backoff = min(10, backoff * 2)
Sleep ==
    /\ pc = "sleep"
    /\ slept' = Append(slept, backoff)
    /\ clock' = clock + backoff
    /\ elapsed' = elapsed + backoff
    /\ wait_total' = wait_total + dt + backoff
    /\ backoff' = NextBackoff(backoff)
    /\ pc' = "fetch"
    /\ UNCHANGED <<return_on, continue_on, timeout, t, dt, status, error,
                   nfetch, trips, stepped, jsonVars, clientVars>>


PollNext == Fetch \/ FetchFails \/ Check \/ Sleep

InitPoll ==
    /\ pc = "fetch"
    /\ return_on \in SUBSET Statuses
    /\ continue_on \in SUBSET Statuses
    /\ timeout \in Timeouts
    /\ wait_total = 0
    /\ backoff = InitialBackoff
    /\ t = 0 /\ dt = 0
    /\ status = NoStatus /\ error = NoError
    /\ clock = 0 /\ elapsed = 0 /\ slept = <<>> /\ nfetch = 0
    /\ trips = <<0, 0>> /\ stepped = FALSE
    /\ jpc = "idle" /\ res = None /\ ok_check = FALSE /\ jresult = None
    /\ cpc = "idle" /\ args = None /\ requests = <<>> /\ cresult = None
    /\ post_res = None /\ lookup_res = None /\ ops = <<>>

SpecPoll == InitPoll /\ [][PollNext]_vars
\* poll is sequential blocking code: whenever it has a next step it takes it.
FairSpecPoll == SpecPoll /\ WF_vars(PollNext)

(***************************************************************************)
(* Strings as token sequences                                              *)
(***************************************************************************)
SeqsUpTo(S, n) == UNION {[1 .. k -> S] : k \in 0 .. n}

\* Index of the first occurrence of sep in s, 0 when there is none.
Find(s, sep) ==
    IF \E i \in 1 .. Len(s) : s[i] = sep
    THEN CHOOSE i \in 1 .. Len(s) : s[i] = sep /\ \A j \in 1 .. i - 1 : s[j] # sep
    ELSE 0

\* str.partition(sep): <<before, sep, after>>, or <<s, "", "">> without sep.
Partition(s, sep) ==
    LET i == Find(s, sep)
    IN  IF i = 0 THEN <<s, <<>>, <<>>>>
        ELSE <<SubSeq(s, 1, i - 1), <<sep>>, SubSeq(s, i + 1, Len(s))>>

(***************************************************************************)
(* json.loads on a body of tokens                                          *)
(***************************************************************************)
JNull == [type |-> "null"]
JObject(id) == [type |-> "object", system_id |-> id]
JArray(items) == [type |-> "array", items |-> items]

JsonAtoms == {"null", "{system_id:node-a}", "{system_id:node-b}", "{system_id:}"}

AtomValue(tok) ==
    CASE tok = "{system_id:node-a}" -> JObject("node-a")
      [] tok = "{system_id:node-b}" -> JObject("node-b")
      [] tok = "{system_id:}" -> JObject("")
      [] OTHER -> JNull

ParseFail == [ok |-> FALSE, val |-> JNull, next |-> 0]

RECURSIVE ParseValue(_, _), ParseElems(_, _, _)
ParseValue(s, i) ==
    IF i > Len(s) THEN ParseFail
    ELSE IF s[i] \in JsonAtoms
    THEN [ok |-> TRUE, val |-> AtomValue(s[i]), next |-> i + 1]
    ELSE IF s[i] = "["
    THEN IF i + 1 <= Len(s) /\ s[i + 1] = "]"
         THEN [ok |-> TRUE, val |-> JArray(<<>>), next |-> i + 2]
         ELSE ParseElems(s, i + 1, <<>>)
    ELSE ParseFail
ParseElems(s, i, acc) ==
    LET v == ParseValue(s, i)
    IN  IF ~v.ok \/ v.next > Len(s) THEN ParseFail
        ELSE IF s[v.next] = ","
        THEN ParseElems(s, v.next + 1, Append(acc, v.val))
        ELSE IF s[v.next] = "]"
        THEN [ok |-> TRUE, val |-> JArray(Append(acc, v.val)), next |-> v.next + 1]
        ELSE ParseFail

\* json.loads(content): the value, or ValueError (ok = FALSE).
Loads(s) ==
    LET v == ParseValue(s, 1)
    IN  IF v.ok /\ v.next = Len(s) + 1 THEN v ELSE ParseFail

(***************************************************************************)
(* _get_json                                                               *)
(***************************************************************************)
StatusCodes == {200, 302, 404, 500}
CtTokens == {"application/json", "text/html", ";", " charset=utf-8"}
BodyTokens == {"[", "]", "null"}
ContentTypes == SeqsUpTo(CtTokens, MaxHeaderLen)
Bodies == SeqsUpTo(BodyTokens, MaxBodyLen)
NoHeaders == [k \in {} |-> <<>>]
Headers == {NoHeaders} \cup {[k \in {"content-type"} |-> ct] : ct \in ContentTypes}
Responses == [status_code : StatusCodes, headers : Headers, text : Bodies]

\* requests.Response.ok: the status is no 4xx or 5xx.
ResOk(r) == ~(400 <= r.status_code /\ r.status_code < 600)

\* dict.get(key): <<value>>, or <<>> for None.
HeadersGet(h, key) == IF key \in DOMAIN h THEN <<h[key]>> ELSE <<>>

MAASError(what, r) ==
    [kind |-> "MAASError", what |-> what, status_code |-> r.status_code,
     content |-> r.text]
Returned(v) == [kind |-> "value", value |-> v]

GetJsonSubstring(r, okc) ==
    IF okc /\ ~ResOk(r) THEN MAASError("status", r)
    ELSE LET ct == HeadersGet(r.headers, "content-type")
         IN  IF ct = <<>> \/ ct[1] = <<>> \/ Find(ct[1], "application/json") = 0
             THEN MAASError("unexpected non-json response", r)
             ELSE LET obj == Loads(r.text)
                  IN  IF ~obj.ok THEN MAASError("failed to parse json", r)
                      ELSE Returned(obj.val)

\* _get_json(res, ok_check): the parsed value, or the MAASError raised.
GetJson(r, okc) ==
    IF okc /\ ~ResOk(r) THEN MAASError("status", r)
    ELSE LET ct == HeadersGet(r.headers, "content-type")
         IN  IF ct = <<>> \/ ct[1] = <<>> \/ Partition(ct[1], ";")[1] # <<"application/json">>
             THEN MAASError("unexpected non-json response", r)
             ELSE LET obj == Loads(r.text)
                  IN  IF ~obj.ok THEN MAASError("failed to parse json", r)
                      ELSE Returned(obj.val)

\* One call _get_json(res, ok_check).
JsonCall ==
    /\ jpc = "call"
    /\ jresult' = GetJson(res, ok_check)
    /\ jpc' = "done"
    /\ UNCHANGED <<res, ok_check, pollVars, clientVars>>

JsonNext == JsonCall

InitJson ==
    /\ jpc = "call"
    /\ res \in Responses
    /\ ok_check \in BOOLEAN
    /\ jresult = None
    /\ pc = "idle"
    /\ return_on = {} /\ continue_on = {} /\ timeout = 0
    /\ wait_total = 0 /\ backoff = InitialBackoff /\ t = 0 /\ dt = 0
    /\ status = NoStatus /\ error = NoError
    /\ clock = 0 /\ elapsed = 0 /\ slept = <<>> /\ nfetch = 0
    /\ trips = <<0, 0>> /\ stepped = FALSE
    /\ cpc = "idle" /\ args = None /\ requests = <<>> /\ cresult = None
    /\ post_res = None /\ lookup_res = None /\ ops = <<>>

SpecJson == InitJson /\ [][JsonNext]_vars

(***************************************************************************)
(* Client and Machine                                                      *)
(***************************************************************************)
Hostnames == {<<"node1">>, <<"node1", ".">>, <<"node1", ".", "example", ".", "com">>}
MacLists == {<<>>, <<"52:54:00:00:00:01">>, <<"52:54:00:00:00:01", "52:54:00:00:00:02">>}
PowerParameters == {<<>>, <<<<"power_address", "10.0.0.1">>>>}
EnlistArgs ==
    [hostname : Hostnames, mac_addresses : MacLists, power_type : {"ipmi"},
     power_parameters : PowerParameters]

JsonHeaders == [k \in {"content-type"} |-> <<"application/json", ";", " charset=utf-8">>]
HtmlHeaders == [k \in {"content-type"} |-> <<"text/html">>]
PostResponses ==
    [status_code : {200, 400, 500}, headers : {JsonHeaders},
     text : {<<"{system_id:node-a}">>}]
LookupResponses ==
    [status_code : {200, 404}, headers : {JsonHeaders, HtmlHeaders},
     text : {<<"[", "]">>,
             <<"[", "{system_id:node-a}", "]">>,
             <<"[", "{system_id:}", "]">>,
             <<"[", "{system_id:node-a}", ",", "{system_id:node-b}", "]">>,
             <<"null">>, <<"{system_id:node-a}">>, <<"[">>}]
OpResponses ==
    {[status_code |-> 200, headers |-> JsonHeaders, text |-> <<"{system_id:node-a}">>],
     [status_code |-> 404, headers |-> JsonHeaders, text |-> <<"null">>],
     [status_code |-> 200, headers |-> HtmlHeaders, text |-> <<"null">>],
     [status_code |-> 200, headers |-> JsonHeaders, text |-> <<"[">>]}

Request(method, path, data) == [method |-> method, path |-> path, data |-> data]
Raised(what) == [kind |-> "raised", what |-> what]
MachineHandle(id) == [kind |-> "Machine", system_id |-> id]

\* The path get_node_id asks for.
LookupPath(hostname) ==
    LET parts == Partition(hostname, ".")
    IN  IF parts[3] = <<>>
        THEN <<"/nodes/?hostname=">> \o parts[1]
        ELSE <<"/nodes/?hostname=">> \o parts[1] \o <<"&domain=">> \o parts[3]

NodeIdOfNoAssert(nodes) ==
    IF nodes.type = "null" THEN None
    ELSE IF nodes.type = "object" THEN Raised("KeyError")
    ELSE IF nodes.items = <<>> THEN None
    ELSE IF nodes.items[1].type # "object" THEN Raised("TypeError")
    ELSE [kind |-> "id", id |-> nodes.items[1].system_id]

\* The end of get_node_id: what it returns, or raises, for the decoded nodes.
NodeIdOf(nodes) ==
    IF nodes.type = "null" THEN None
    ELSE IF nodes.type = "object" THEN Raised("KeyError")
    ELSE IF nodes.items = <<>> THEN None
    ELSE IF Len(nodes.items) # 1 THEN Raised("AssertionError")
    ELSE IF nodes.items[1].type # "object" THEN Raised("TypeError")
    ELSE [kind |-> "id", id |-> nodes.items[1].system_id]

\* get_machine after the lookup was answered with r.
GetMachine(r) ==
    LET nodes == GetJson(r, FALSE)
    IN  IF nodes.kind = "MAASError" THEN Raised("MAASError")
        ELSE LET node_id == NodeIdOf(nodes.value)
             IN  IF node_id.kind = "raised" THEN node_id
                 ELSE IF node_id = None \/ node_id.id = "" THEN None
                 ELSE MachineHandle(node_id.id)

\* The form fields enlist_and_commission posts.
EnlistData(a) ==
    LET parts == Partition(a.hostname, ".")
    IN  <<<<"hostname", parts[1]>>, <<"architecture", "amd64">>,
          <<"power_type", a.power_type>>>>
        \o (IF parts[3] # <<>> THEN <<<<"domain", parts[3]>>>> ELSE <<>>)
        \o [i \in 1 .. Len(a.mac_addresses) |-> <<"mac_addresses", a.mac_addresses[i]>>]
        \o [i \in 1 .. Len(a.power_parameters) |->
              <<"power_parameters_" \o a.power_parameters[i][1], a.power_parameters[i][2]>>]

\* res = self.post('/machines/', data=data): the request is answered.
EnlistPost ==
    /\ cpc = "enlist"
    /\ requests' = Append(requests, Request("POST", <<"/machines/">>, EnlistData(args)))
    /\ \E r \in PostResponses : post_res' = r
    /\ cpc' = "lookup"
    /\ UNCHANGED <<args, cresult, lookup_res, ops, pollVars, jsonVars>>

\* The same request when the session raises (no answer at all).
EnlistPostRaises ==
    /\ cpc = "enlist"
    /\ requests' = Append(requests, Request("POST", <<"/machines/">>, EnlistData(args)))
    /\ cresult' = Raised("transport")
    /\ cpc' = "done"
    /\ UNCHANGED <<args, post_res, lookup_res, ops, pollVars, jsonVars>>

\* return self.get_machine(hostname): the lookup is answered.
Lookup ==
    /\ cpc = "lookup"
    /\ requests' = Append(requests, Request("GET", LookupPath(args.hostname), <<>>))
    /\ \E r \in LookupResponses :
        /\ lookup_res' = r
        /\ cresult' = GetMachine(r)
    /\ cpc' = "done"
    /\ UNCHANGED <<args, post_res, ops, pollVars, jsonVars>>

\* The lookup when the session raises.
LookupRaises ==
    /\ cpc = "lookup"
    /\ requests' = Append(requests, Request("GET", LookupPath(args.hostname), <<>>))
    /\ cresult' = Raised("transport")
    /\ cpc' = "done"
    /\ UNCHANGED <<args, post_res, lookup_res, ops, pollVars, jsonVars>>

\* One lifecycle call on the handle enlist_and_commission returned: one
\* request, its answer decoded with ok_check=True (or the session raising).
MachineCall(op, method, path, data) ==
    /\ cpc = "done"
    /\ cresult.kind = "Machine"
    /\ Len(ops) < MaxOps
    /\ requests' = Append(requests, Request(method, path, data))
    /\ \E out \in {GetJson(r, TRUE) : r \in OpResponses} \cup {Raised("transport")} :
        ops' = Append(ops, [op |-> op, result |-> out])
    /\ UNCHANGED <<cpc, args, cresult, post_res, lookup_res, pollVars, jsonVars>>

MachinePath(suffix) == <<"/machines/", cresult.system_id, "/">> \o suffix

GetDetail == MachineCall("get_detail", "GET", MachinePath(<<>>), <<>>)
Commission == MachineCall("commission", "POST", MachinePath(<<"?op=commission">>), <<>>)
Allocate ==
    MachineCall("allocate", "POST", <<"/machines/?op=allocate">>,
                <<<<"system_id", cresult.system_id>>>>)
Deploy == MachineCall("deploy", "POST", MachinePath(<<"?op=deploy">>), <<>>)
Release == MachineCall("release", "POST", MachinePath(<<"?op=release">>), <<>>)
Delete == MachineCall("delete", "DELETE", MachinePath(<<>>), <<>>)

ClientNext ==
    \/ EnlistPost \/ EnlistPostRaises \/ Lookup \/ LookupRaises
    \/ GetDetail \/ Commission \/ Allocate \/ Deploy \/ Release \/ Delete

InitClient ==
    /\ cpc = "enlist"
    /\ args \in EnlistArgs
    /\ requests = <<>> /\ cresult = None
    /\ post_res = None /\ lookup_res = None /\ ops = <<>>
    /\ pc = "idle"
    /\ return_on = {} /\ continue_on = {} /\ timeout = 0
    /\ wait_total = 0 /\ backoff = InitialBackoff /\ t = 0 /\ dt = 0
    /\ status = NoStatus /\ error = NoError
    /\ clock = 0 /\ elapsed = 0 /\ slept = <<>> /\ nfetch = 0
    /\ trips = <<0, 0>> /\ stepped = FALSE
    /\ jpc = "idle" /\ res = None /\ ok_check = FALSE /\ jresult = None

SpecClient == InitClient /\ [][ClientNext]_vars

(***************************************************************************)
(* Properties of _get_json                                                 *)
(***************************************************************************)
\* The media type of the response is application/json: the content-type
\* header is present and is that text, alone or followed by a ";".
HasJsonMediaType(r) ==
    /\ "content-type" \in DOMAIN r.headers
    /\ LET ct == r.headers["content-type"]
       IN  /\ Len(ct) >= 1
           /\ ct[1] = "application/json"
           /\ (Len(ct) = 1 \/ ct[2] = ";")

\* C8 as claimed: a response whose media type is not application/json makes
\* _get_json raise the 'unexpected non-json response' error, whatever the
\* body, the status code and ok_check are.
C8_Original ==
    (jpc = "done" /\ ~HasJsonMediaType(res)) =>
        (jresult.kind = "MAASError" /\ jresult.what = "unexpected non-json response")

\* C8 amended: such a response makes _get_json raise, whatever the body: the
\* status error when ok_check is set and the status is a 4xx or 5xx, the
\* 'unexpected non-json response' error in every other case.
C8_NonJsonRejected ==
    (jpc = "done" /\ ~HasJsonMediaType(res)) =>
        /\ jresult.kind = "MAASError"
        /\ IF ok_check /\ res.status_code >= 400
           THEN jresult.what = "status"
           ELSE jresult.what = "unexpected non-json response"

C8_Witness ==
    /\ jpc = "done" /\ ok_check /\ res.status_code = 404
    /\ "content-type" \in DOMAIN res.headers
    /\ res.headers["content-type"] = <<"text/html", ";", "application/json">>
    /\ res.text = <<"[", "null", "]">>
    /\ jresult.what = "status"

(***************************************************************************)
(* Properties of Client.enlist_and_commission and the Machine calls        *)
(***************************************************************************)
IsCreation(q) == q.method = "POST" /\ q.path = <<"/machines/">>
\* GET /nodes/ filtered by the short host name and, when the host name has
\* one, the domain.
IsLookupFor(q, hostname) ==
    /\ q.method = "GET"
    /\ q.path = IF Len(hostname) >= 3
                THEN <<"/nodes/?hostname=", hostname[1], "&domain=">>
                     \o SubSeq(hostname, 3, Len(hostname))
                ELSE <<"/nodes/?hostname=", hostname[1]>>
\* The requests enlist_and_commission itself sent (the ones before any
\* lifecycle call on the handle).
EnlistRequests == SubSeq(requests, 1, Len(requests) - Len(ops))
\* The lookup was answered with a JSON list of exactly one entry.
LookupEntries ==
    IF lookup_res = None THEN <<>>
    ELSE LET v == GetJson(lookup_res, FALSE)
         IN  IF v.kind = "value" /\ v.value.type = "array" THEN v.value.items
             ELSE <<>>
LookupAnsweredList ==
    /\ lookup_res # None
    /\ LET v == GetJson(lookup_res, FALSE)
       IN  v.kind = "value" /\ v.value.type = "array"

\* C9 as claimed: enlist_and_commission sends exactly one creation request,
\* then exactly one lookup request, nothing else, and returns a Machine
\* handle whose system_id is that of the entry the lookup returned; read for
\* the calls whose creation request was answered with a success status and
\* whose lookup was answered with a JSON list.
C9_Original ==
    (cpc = "done" /\ post_res # None /\ post_res.status_code < 400
       /\ LookupAnsweredList) =>
        /\ Len(EnlistRequests) = 2
        /\ IsCreation(EnlistRequests[1])
        /\ IsLookupFor(EnlistRequests[2], args.hostname)
        /\ cresult.kind = "Machine"
        /\ Len(LookupEntries) = 1
        /\ cresult.system_id = LookupEntries[1].system_id

\* C9 amended: enlist_and_commission sends exactly one creation request and,
\* unless the session raises on it, exactly one lookup request after it
\* (whatever the status of the creation's answer), and nothing else.  When
\* the lookup is answered with a JSON list of one entry with a non-empty
\* system_id it returns a Machine handle with that system_id; for an empty
\* list or an empty system_id it returns None; for a longer list it raises
\* and returns no handle.
C9_EnlistThenLookup ==
    cpc = "done" =>
        /\ Len(EnlistRequests) \in {1, 2}
        /\ IsCreation(EnlistRequests[1])
        /\ Len(EnlistRequests) = 1 => (post_res = None /\ cresult.kind = "raised")
        /\ Len(EnlistRequests) = 2 =>
              /\ post_res # None
              /\ IsLookupFor(EnlistRequests[2], args.hostname)
        /\ cresult.kind = "Machine" =>
              /\ Len(LookupEntries) = 1
              /\ cresult.system_id = LookupEntries[1].system_id
              /\ cresult.system_id # ""
        /\ LookupAnsweredList =>
              CASE Len(LookupEntries) = 0 -> cresult = None
                [] Len(LookupEntries) = 1 ->
                     IF LookupEntries[1].system_id = "" THEN cresult = None
                     ELSE cresult = [kind |-> "Machine",
                                     system_id |-> LookupEntries[1].system_id]
                [] OTHER -> cresult.kind = "raised"

C9_Witness ==
    /\ cpc = "done" /\ Len(requests) = 2 /\ post_res # None
    /\ post_res.status_code = 200
    /\ args.hostname = <<"node1", ".", "example", ".", "com">>
    /\ requests[2].path = <<"/nodes/?hostname=", "node1", "&domain=", "example", ".", "com">>
    /\ cresult = [kind |-> "Machine", system_id |-> "node-a"]

\* C10: no operation retries a failed request and a failed request ends its
\* operation with an error before anything else is sent: every lifecycle
\* call of Machine sends exactly one request, and a creation request
\* answered with a failure status ends enlist_and_commission with an error,
\* with no lookup request sent.  (The part about poll is C10_PollPropagates.)
C10_FailedRequestEndsOperation ==
    /\ Len(requests) - Len(ops) \in 0 .. 2
    /\ \A i \in 1 .. Len(ops) :
          requests[Len(requests) - Len(ops) + i].method \in {"GET", "POST", "DELETE"}
    /\ (post_res # None /\ post_res.status_code >= 400) =>
          /\ \A i \in 1 .. Len(requests) : ~IsLookupFor(requests[i], args.hostname)
          /\ cpc = "done" => cresult.kind = "raised"

(***************************************************************************)
(* Properties of Machine.poll                                              *)
(***************************************************************************)
RECURSIVE SumSeq(_)
SumSeq(q) == IF q = <<>> THEN 0 ELSE q[1] + SumSeq(Tail(q))

Finished == pc \in {"returned", "raised"}
TimedOut == pc = "raised" /\ error.what = "time limit"
\* Once poll has returned or raised, nothing more is sent or slept.
NothingAfterTheEnd ==
    [][Finished => (pc' = pc /\ slept' = slept /\ nfetch' = nfetch /\ error' = error)]_vars

\* C1: a fetched status that is in return_on makes poll return at once, with
\* no sleep and no further fetch, at any iteration and also when the status
\* is in continue_on as well; a first status in return_on ends poll with no
\* sleep at all and wait_total = 0.
C1_ReturnAtOnce ==
    /\ [][(pc = "check" /\ status \in return_on) =>
            (pc' = "returned" /\ error' = NoError /\ slept' = slept
             /\ nfetch' = nfetch /\ wait_total' = wait_total)]_vars
    /\ NothingAfterTheEnd
    /\ [](pc = "returned" /\ nfetch = 1 => slept = <<>> /\ wait_total = 0)

C1_Witness ==
    /\ pc = "returned" /\ status \in return_on \cap continue_on
    /\ nfetch = 2 /\ Len(slept) = 1

\* C2: a fetched status in neither set makes poll raise the unexpected-status
\* error carrying that status, with no sleep and no further fetch, whatever
\* wait_total is; never the timeout error, never success.
C2_UnexpectedStatusAtOnce ==
    /\ [][(pc = "check" /\ status \notin (return_on \cup continue_on)) =>
            (/\ pc' = "raised"
             /\ error'.kind = "MAASError"
             /\ error'.what = "unexpected status"
             /\ error'.status = status
             /\ slept' = slept /\ nfetch' = nfetch)]_vars
    /\ NothingAfterTheEnd

C2_Witness ==
    /\ pc = "raised" /\ error.what = "unexpected status"
    /\ status \notin (return_on \cup continue_on)
    /\ wait_total > timeout /\ nfetch >= 2

\* C3: the sleeps of one poll call last 3, 6, 10, 10, ...: the k-th lasts
\* min(10, 3 * 2^(k-1)); the backoff is in {3, 6, 10}, never decreases and is
\* never reset.
C3_BackoffSequence ==
    /\ [](/\ backoff \in {3, 6, 10}
          /\ \A k \in 1 .. Len(slept) : slept[k] = Min(10, 3 * 2 ^ (k - 1))
          /\ backoff = Min(10, 3 * 2 ^ Len(slept)))
    /\ [][backoff' >= backoff]_vars

C3_Witness == slept = <<3, 6, 10, 10>>

\* C4: when every fetch succeeds with a status in continue_on and not in
\* return_on, poll terminates, and it ends with the timeout error carrying
\* return_on, the timeout and the last status (a member of continue_on); with
\* timeout = 5 that happens once the wait accumulated from the backoffs
\* 3, 6 exceeds 5.
C4_StuckStatusTimesOut ==
    /\ ([](pc = "check" => status \in continue_on \ return_on)
          /\ [](error.kind = "none" \/ error.what # "get_detail"))
        => <>(/\ pc = "raised"
              /\ error = [kind |-> "MAASError", what |-> "time limit",
                          return_on |-> return_on, timeout |-> timeout,
                          status |-> status]
              /\ status \in continue_on)
    /\ [](TimedOut /\ timeout = 5 =>
            wait_total > 5 /\ slept \in {<<3>>, <<3, 6>>})

C4_Witness ==
    /\ TimedOut /\ timeout = 5 /\ continue_on = {"Deploying"}
    /\ return_on = {"Ready"} /\ slept = <<3, 6>>

\* C5 as claimed: poll raises the timeout error only in an iteration whose
\* status is in continue_on and whose wait_total exceeds timeout, without
\* sleeping; every iteration whose status is in continue_on and whose
\* wait_total is at most timeout sleeps for the backoff and fetches again.
C5_Original ==
    /\ [][(pc = "check" /\ pc' = "raised" /\ error'.what = "time limit") =>
            (status \in continue_on /\ wait_total > timeout /\ slept' = slept)]_vars
    /\ [][(pc = "check" /\ status \in continue_on /\ wait_total <= timeout) =>
            pc' = "sleep"]_vars

\* C5 amended: the same, for the iterations whose status is in continue_on
\* and not in return_on (a status in both sets makes poll return).
C5_TimeoutCheckBeforeSleep ==
    /\ [][(pc = "check" /\ pc' = "raised" /\ error'.what = "time limit") =>
            (/\ status \in continue_on /\ wait_total > timeout
             /\ wait_total' = wait_total /\ slept' = slept /\ nfetch' = nfetch)]_vars
    /\ [](TimedOut => status \in continue_on /\ wait_total > timeout)
    /\ [][(pc = "check" /\ status \in continue_on \ return_on
             /\ wait_total <= timeout) => pc' = "sleep"]_vars
    /\ [][pc = "sleep" => (pc' = "fetch" /\ slept' = Append(slept, backoff))]_vars
    /\ [][pc = "fetch" => nfetch' = nfetch + 1]_vars
    /\ NothingAfterTheEnd

C5_Witness ==
    /\ TimedOut /\ nfetch = 3 /\ Len(slept) = 2
    /\ status \in continue_on \ return_on

\* C6 as claimed: when poll raises the timeout error, the real time elapsed
\* since the call (every round-trip and every sleep, the last fetch
\* included) exceeds timeout by at most one round-trip plus one backoff
\* interval; read with the longest round-trip and the longest backoff, and
\* for a clock that is never stepped backward.
C6_Original ==
    (TimedOut /\ ~stepped) => elapsed - timeout <= MaxRoundTrip + 10

\* C6 amended: for timeout >= 0 and a clock never stepped backward during a
\* fetch, the elapsed time exceeds timeout by at most the last two
\* round-trips plus the last backoff slept.
C6_SoftDeadline ==
    (TimedOut /\ ~stepped /\ timeout >= 0) =>
        /\ Len(slept) >= 1
        /\ elapsed - timeout <= trips[1] + trips[2] + slept[Len(slept)]

C6_Witness ==
    /\ TimedOut /\ ~stepped /\ timeout = MaxTimeout
    /\ elapsed - timeout = trips[1] + trips[2] + slept[Len(slept)] - 1
    /\ elapsed - timeout > MaxRoundTrip + 10

\* C7: wait_total starts at 0 and never decreases, also when the clock read
\* after the fetch is earlier than the one before it; every sleeping
\* iteration adds at least the backoff slept, so wait_total is at least the
\* sum of the backoffs slept.
C7_WaitTotalMonotone ==
    /\ [](nfetch = 0 => wait_total = 0)
    /\ [](dt >= 0)
    /\ [](wait_total >= SumSeq(slept))
    /\ [][wait_total' >= wait_total]_vars
    /\ [][pc = "sleep" => wait_total' >= wait_total + backoff]_vars

C7_Witness ==
    /\ pc = "fetch" /\ nfetch = 1 /\ clock - 3 < t /\ dt = 0
    /\ wait_total = 3 /\ slept = <<3>>

\* The part of C10 that is about poll: a failing get_detail ends poll with
\* that error, with no sleep and no further fetch.
C10_PollPropagates ==
    /\ [][(pc = "fetch" /\ error' # error) =>
            (pc' = "raised" /\ error'.what = "get_detail" /\ slept' = slept)]_vars
    /\ NothingAfterTheEnd

====
